---------------------------- MODULE Spec2Model ----------------------------
(***************************************************************************)
(* Two unrelated scripts of the repository:                                *)
(*   - rag-news-assistant: loader.py, rag_pipeline.py (RAGPipeline) and    *)
(*     app.py (the Streamlit chat front end);                              *)
(*   - ollama_langchain_agent.py: the agent script.                        *)
(* Text is a sequence of one-character strings.  An optional value is a    *)
(* sequence of length 0 (None / absent) or 1 (the value).                  *)
(***************************************************************************)
EXTENDS Integers, Sequences, FiniteSets

VARIABLES
    tieLow,         \* how this build of the index breaks exact distance ties
    newsFile,       \* data/news_sample.txt: the raw lines of the file
    cache,          \* st.cache_resource of get_pipeline: <<>> or <<pipeline>>
    builds,         \* times the body of get_pipeline ran in this process
    hasMessages,    \* "messages" in st.session_state
    messages,       \* st.session_state.messages
    runEnd,         \* how the last app.py run of the session ended
    lastCall,       \* the last call of a RAGPipeline method, as observed
    probe,          \* one earlier retrieve call, remembered for comparison
    pc,             \* agent script: position in the module top level
    current_date,   \* agent script: <<year, month, day>>
    llm_model,      \* agent script: <<>> before line 12, then <<model>>
    raised,         \* agent script: <<>> or <<[at, e]>>, the failure raised
    output,         \* agent script: what has been printed
    uncaught        \* agent script: <<>> or <<e>>, e propagated out

vars == <<tieLow, newsFile, cache, builds, hasMessages, messages, runEnd,
          lastCall, probe, pc, current_date, llm_model, raised, output,
          uncaught>>

ragVars == <<tieLow, newsFile, cache, builds, hasMessages, messages, runEnd,
             lastCall, probe>>
agentVars == <<pc, current_date, llm_model, raised, output, uncaught>>

(***************************************************************************)
(* Bounds of the model.                                                    *)
(***************************************************************************)
MaxLines == 3       \* lines in the news file
MaxK == 3           \* largest top_k of a direct retrieve call
MaxCtx == 2         \* longest context of a direct generate call
MaxHist == 4        \* a script run with input starts only below this length
MinYear == 2023
MaxYear == 2025

(***************************************************************************)
(* Text helpers.                                                           *)
(***************************************************************************)
Whitespace == {" ", "\n"}

Min(a, b) == IF a <= b THEN a ELSE b

RECURSIVE LStrip(_)
LStrip(s) ==
    IF s # <<>> /\ Head(s) \in Whitespace THEN LStrip(Tail(s)) ELSE s

RECURSIVE RStrip(_)
RStrip(s) ==
    IF s # <<>> /\ s[Len(s)] \in Whitespace
    THEN RStrip(SubSeq(s, 1, Len(s) - 1))
    ELSE s

\* str.strip()
Strip(s) == RStrip(LStrip(s))

\* str.count(c)
Count(s, c) == Len(SelectSeq(s, LAMBDA x : x = c))

\* as Join, with no separator: ''.join(context)
RECURSIVE JoinNoSeparator(_)
JoinNoSeparator(context) ==
    IF context = <<>> THEN <<>>
    ELSE context[1] \o JoinNoSeparator(Tail(context))

\* ' '.join(context)
RECURSIVE Join(_)
Join(context) ==
    IF context = <<>> THEN <<>>
    ELSE IF Len(context) = 1 THEN context[1]
    ELSE context[1] \o <<" ">> \o Join(Tail(context))

\* list[i] of Python, i a 0-based index, negative i counted from the end
PyIndex(list, i) == IF i >= 0 THEN list[i + 1] ELSE list[Len(list) + i + 1]

(***************************************************************************)
(* loader.py                                                               *)
(***************************************************************************)
RECURSIVE LoadNews(_)
LoadNews(lines) ==
    IF lines = <<>> THEN <<>>
    ELSE IF Strip(Head(lines)) # <<>>
         THEN <<Strip(Head(lines))>> \o LoadNews(Tail(lines))
         ELSE LoadNews(Tail(lines))


(***************************************************************************)
(* rag_pipeline.py: the models behind the pipeline.                        *)
(* The sentence embedder is a fixed function of the text alone: here the   *)
(* vector of the counts of "a" and of "b".  The generator is a fixed       *)
(* function of the prompt alone, capped at max_new_tokens tokens: here the *)
(* letters of the prompt, in order.                                        *)
(***************************************************************************)
MaxNewTokens == 64

\* self.embedder.encode([text])[0]
Embed(text) == <<Count(text, "a"), Count(text, "b")>>

\* as Encode, with a text equal to the one before it encoded only once
EncodeSkippingRepeats(texts) ==
    LET kept == { i \in 1..Len(texts) : i = 1 \/ texts[i] # texts[i - 1] }
        nth(k) == CHOOSE i \in kept : Cardinality({ j \in kept : j < i }) = k - 1
    IN  [k \in 1..Cardinality(kept) |-> Embed(texts[nth(k)])]

\* self.embedder.encode(texts, convert_to_numpy=True): one row per text
Encode(texts) == [i \in 1..Len(texts) |-> Embed(texts[i])]

Letters(s) == SelectSeq(s, LAMBDA x : x \in {"a", "b"})

\* self.generator(prompt, max_new_tokens=64): the list of candidates
Generator(prompt) ==
    LET text == Letters(prompt)
    IN  << [generated_text |-> SubSeq(text, 1, Min(Len(text), MaxNewTokens))] >>

(***************************************************************************)
(* faiss.IndexFlatL2: exact search by squared Euclidean distance.          *)
(***************************************************************************)
RECURSIVE SumSq(_, _, _)
SumSq(u, v, i) ==
    IF i = 0 THEN 0
    ELSE (u[i] - v[i]) * (u[i] - v[i]) + SumSq(u, v, i - 1)

L2Sqr(u, v) == SumSq(u, v, Len(u))

\* Row i, at distance dist[i], is reported before row j.
Precedes(dist, i, j, low) ==
    \/ dist[i] < dist[j]
    \/ /\ dist[i] = dist[j]
       /\ IF low THEN i < j ELSE i > j

Rank(dist, i, low) ==
    Cardinality({j \in 1..Len(dist) : Precedes(dist, j, i, low)})

\* index.search(query_emb, top_k)[1][0]: the top_k labels (0-based row
\* numbers) in ascending distance, padded with -1 when the index holds
\* fewer than top_k vectors.  (The distances D are discarded by retrieve.)
Search(index, qe, top_k, low) ==
    LET dist == [i \in 1..Len(index) |-> L2Sqr(index[i], qe)]
        rank == [i \in 1..Len(index) |-> Rank(dist, i, low)]
    IN  [r \in 1..top_k |->
            IF r <= Len(index)
            THEN (CHOOSE i \in 1..Len(index) : rank[i] = r - 1) - 1
            ELSE -1]

(***************************************************************************)
(* rag_pipeline.py: class RAGPipeline.                                     *)
(***************************************************************************)
DefaultTopK == 3

\* __init__ raises on an empty corpus: encode([]) has no second dimension
CanConstruct(docs) == docs # <<>>

\* __init__: the object after construction
RAGPipeline(docs) ==
    [docs |-> docs, embeddings |-> Encode(docs), index |-> Encode(docs)]

\* retrieve: the labels the index search reports
RetrieveLabels(p, query, top_k, low) ==
    Search(p.index, Embed(query), top_k, low)

\* as DocsAt, with the labels sorted first: [docs[i] for i in sorted(I)]
DocsAtInCorpusOrder(docs, I) ==
    LET before(a, b) == I[a] < I[b] \/ (I[a] = I[b] /\ a < b)
        nth(r) == CHOOSE a \in 1..Len(I) :
                      Cardinality({ b \in 1..Len(I) : before(b, a) }) = r - 1
    IN  [r \in 1..Len(I) |-> PyIndex(docs, I[nth(r)])]

\* [docs[i] for i in I]
DocsAt(docs, I) == [r \in 1..Len(I) |-> PyIndex(docs, I[r])]

\* retrieve: [self.docs[i] for i in I[0]]
Retrieve(p, query, top_k, low) ==
    DocsAt(p.docs, RetrieveLabels(p, query, top_k, low))

\* generate: the prompt handed to the generator
Prompt(query, context) ==
    <<"C","o","n","t","e","x","t",":"," ">> \o Join(context)
    \o <<"\n","\n","Q","u","e","s","t","i","o","n",":"," ">> \o query
    \o <<"\n","A","n","s","w","e","r",":">>

\* generate: result[0]['generated_text']
Generate(p, query, context) ==
    Generator(Prompt(query, context))[1].generated_text

\* answer
Answer(p, query, low) == Generate(p, query, Retrieve(p, query, DefaultTopK, low))

\* as AfterCall, with the call moving the first document to the end of
\* self.docs
AfterCallRotatingDocs(p) ==
    [p EXCEPT !.docs = Tail(p.docs) \o << Head(p.docs) >>]

\* The object after a call of retrieve, generate or answer: no method
\* assigns to an attribute of self or changes docs, embeddings or index.
AfterCall(p) == p

(***************************************************************************)
(* A call of a method, as seen at its boundary: the arguments it was given *)
(* and what it handed to the index, to the generator and to its caller.    *)
(***************************************************************************)
RetrieveCall(p, query, top_k, low) ==
    [query  |-> query,
     top_k  |-> top_k,
     labels |-> RetrieveLabels(p, query, top_k, low),
     ret    |-> Retrieve(p, query, top_k, low)]

GenerateCall(p, query, context) ==
    [query      |-> query,
     context    |-> context,
     prompt     |-> Prompt(query, context),
     candidates |-> Generator(Prompt(query, context)),
     ret        |-> Generate(p, query, context)]

\* as AnswerCall, with the earlier messages of the chat put before the
\* question that is handed to retrieve and generate
AnswerCallWithMemory(p, query, low) ==
    LET asked == Join([i \in 1..Len(messages) |-> messages[i].content]
                      \o << query >>)
        r == RetrieveCall(p, asked, DefaultTopK, low)
        g == GenerateCall(p, asked, r.ret)
    IN  [query |-> query, retrieve |-> r, generate |-> g, ret |-> g.ret]

\* answer: context = self.retrieve(query); return self.generate(query, context)
AnswerCall(p, query, low) ==
    LET r == RetrieveCall(p, query, DefaultTopK, low)
        g == GenerateCall(p, query, r.ret)
    IN  [query |-> query, retrieve |-> r, generate |-> g, ret |-> g.ret]

\* What is observed of answer(query) when the stage `fail` raises
\* ("none": no stage raises).
AnswerObserved(p, query, low, fail) ==
    LET c == AnswerCall(p, query, low)
    IN  [op       |-> "answer",
         query    |-> query,
         retrieve |-> IF fail = "retrieve" THEN <<>> ELSE <<c.retrieve>>,
         generate |-> IF fail = "none" THEN <<c.generate>> ELSE <<>>,
         ret      |-> IF fail = "none" THEN <<c.ret>> ELSE <<>>,
         raised   |-> fail]

NoCall == [op |-> "none"]

(***************************************************************************)
(* Inputs.                                                                 *)
(***************************************************************************)
RawLines == { <<" ", "\n">>, <<"a", "\n">>, <<" ", "b">> }

Files == UNION { [1..n -> RawLines] : n \in 0..MaxLines }

Queries == { <<"a", "?">>, <<"a", "b", "?">> }

\* st.chat_input(...): None, or the submitted text
UserInputs == { <<>> } \cup { <<q>> : q \in Queries \cup { <<>> } }

\* `if user_input:`
Truthy(user_input) == user_input # <<>> /\ user_input[1] # <<>>

Stages == {"none", "retrieve", "generate"}

(***************************************************************************)
(* app.py: one run of the script is one action.                            *)
(***************************************************************************)
InitRag ==
    /\ tieLow \in BOOLEAN
    /\ newsFile \in Files
    /\ cache = <<>>
    /\ builds = 0
    /\ hasMessages = FALSE
    /\ messages = <<>>
    /\ runEnd = "none"
    /\ lastCall = NoCall
    /\ probe = <<>>

IdleAgent ==
    /\ pc = "idle"
    /\ current_date = <<MinYear, 1, 1>>
    /\ llm_model = <<>>
    /\ raised = <<>>
    /\ output = <<>>
    /\ uncaught = <<>>

\* get_pipeline() under st.cache_resource: the cached object, or a new one
CacheAfterGet(c, file) ==
    IF c # <<>> THEN c ELSE << RAGPipeline(LoadNews(file)) >>

BuildsAfterGet(c, n) == IF c # <<>> THEN n ELSE n + 1

\* as MessagesAtStart, with line 14 missing: the list is reset every run
MessagesReset == <<>>

\* lines 14-15
MessagesAtStart == IF hasMessages THEN messages ELSE <<>>

\* st.session_state.messages.append(msg)
AppendMessage(list, msg) == Append(list, msg)

\* lines 7-12 raise: the corpus is empty and nothing is cached
RunFailsToBuild ==
    /\ cache = <<>>
    /\ ~CanConstruct(LoadNews(newsFile))
    /\ runEnd' = "error"
    /\ lastCall' = [op |-> "init", raised |-> "init"]
    /\ UNCHANGED <<tieLow, newsFile, cache, builds, hasMessages, messages, probe>>
    /\ UNCHANGED agentVars

\* a rerun with nothing submitted
RunNoInput(user_input) ==
    /\ ~Truthy(user_input)
    /\ cache # <<>> \/ CanConstruct(LoadNews(newsFile))
    /\ cache' = CacheAfterGet(cache, newsFile)
    /\ builds' = BuildsAfterGet(cache, builds)
    /\ hasMessages' = TRUE
    /\ messages' = MessagesAtStart
    /\ runEnd' = "ok"
    /\ lastCall' = NoCall
    /\ UNCHANGED <<tieLow, newsFile, probe>>
    /\ UNCHANGED agentVars

\* a rerun with a submitted question; `fail` is the stage of answer that raises
RunWithInput(user_input, fail) ==
    /\ Truthy(user_input)
    /\ Len(messages) + 2 <= MaxHist
    /\ cache # <<>> \/ CanConstruct(LoadNews(newsFile))
    /\ builds' = BuildsAfterGet(cache, builds)
    /\ hasMessages' = TRUE
    /\ LET query == user_input[1]
           pipeline == CacheAfterGet(cache, newsFile)[1]
           withUser == AppendMessage(MessagesAtStart,
                                     [role |-> "user", content |-> query])
           call == AnswerObserved(pipeline, query, tieLow, fail)
       IN  /\ cache' = << AfterCall(pipeline) >>
           /\ lastCall' = call
           /\ IF fail = "none"
              THEN /\ messages' = AppendMessage(withUser,
                          [role |-> "assistant", content |-> call.ret[1]])
                   /\ runEnd' = "ok"
              ELSE /\ messages' = withUser
                   /\ runEnd' = "error"
    /\ UNCHANGED <<tieLow, newsFile, probe>>
    /\ UNCHANGED agentVars

\* a new browser session: a fresh st.session_state
NewSession ==
    /\ hasMessages
    /\ hasMessages' = FALSE
    /\ messages' = <<>>
    /\ runEnd' = "none"
    /\ lastCall' = NoCall
    /\ UNCHANGED <<tieLow, newsFile, cache, builds, probe>>
    /\ UNCHANGED agentVars

\* the server process is restarted: the cache and every session are gone
Restart ==
    /\ cache # <<>>
    /\ cache' = <<>>
    /\ builds' = 0
    /\ hasMessages' = FALSE
    /\ messages' = <<>>
    /\ runEnd' = "none"
    /\ lastCall' = NoCall
    /\ UNCHANGED <<tieLow, newsFile, probe>>
    /\ UNCHANGED agentVars

Init == InitRag /\ IdleAgent

Next ==
    \/ RunFailsToBuild
    \/ \E user_input \in UserInputs : RunNoInput(user_input)
    \/ \E user_input \in UserInputs, fail \in Stages : RunWithInput(user_input, fail)
    \/ NewSession
    \/ Restart

Spec == Init /\ [][Next]_vars

(***************************************************************************)
(* RAGPipeline driven directly: construct it from the loaded documents and *)
(* call its methods in any order, with any top_k and any context.          *)
(***************************************************************************)
TopKs == 1..MaxK

\* the lists of documents of p, up to MaxCtx long
Contexts(p) ==
    UNION { [1..n -> { p.docs[i] : i \in 1..Len(p.docs) }] : n \in 0..MaxCtx }

\* the first direct retrieve call made is remembered
ProbeAfter(call) == IF probe = <<>> THEN <<call>> ELSE probe

Construct ==
    /\ cache = <<>>
    /\ CanConstruct(LoadNews(newsFile))
    /\ cache' = << RAGPipeline(LoadNews(newsFile)) >>
    /\ lastCall' = [op |-> "init", raised |-> "none"]
    /\ UNCHANGED <<tieLow, newsFile, builds, hasMessages, messages, runEnd, probe>>
    /\ UNCHANGED agentVars

ConstructRaises ==
    /\ cache = <<>>
    /\ ~CanConstruct(LoadNews(newsFile))
    /\ lastCall' = [op |-> "init", raised |-> "init"]
    /\ UNCHANGED <<tieLow, newsFile, cache, builds, hasMessages, messages,
                   runEnd, probe>>
    /\ UNCHANGED agentVars

\* the object is dropped; the next Construct makes another one
Discard ==
    /\ cache # <<>>
    /\ cache' = <<>>
    /\ lastCall' = NoCall
    /\ UNCHANGED <<tieLow, newsFile, builds, hasMessages, messages, runEnd, probe>>
    /\ UNCHANGED agentVars

CallRetrieve(query, top_k) ==
    /\ cache # <<>>
    /\ LET call == RetrieveCall(cache[1], query, top_k, tieLow)
       IN  /\ lastCall' = [op |-> "retrieve", call |-> call]
           /\ probe' = ProbeAfter(call)
    /\ cache' = << AfterCall(cache[1]) >>
    /\ UNCHANGED <<tieLow, newsFile, builds, hasMessages, messages, runEnd>>
    /\ UNCHANGED agentVars

CallGenerate(query) ==
    /\ cache # <<>>
    /\ \E context \in Contexts(cache[1]) :
           lastCall' = [op |-> "generate",
                        call |-> GenerateCall(cache[1], query, context)]
    /\ cache' = << AfterCall(cache[1]) >>
    /\ UNCHANGED <<tieLow, newsFile, builds, hasMessages, messages, runEnd, probe>>
    /\ UNCHANGED agentVars

CallAnswer(query) ==
    /\ cache # <<>>
    /\ lastCall' = AnswerObserved(cache[1], query, tieLow, "none")
    /\ cache' = << AfterCall(cache[1]) >>
    /\ UNCHANGED <<tieLow, newsFile, builds, hasMessages, messages, runEnd, probe>>
    /\ UNCHANGED agentVars

NextPipeline ==
    \/ Construct
    \/ ConstructRaises
    \/ Discard
    \/ \E query \in Queries, top_k \in TopKs : CallRetrieve(query, top_k)
    \/ \E query \in Queries : CallGenerate(query)
    \/ \E query \in Queries : CallAnswer(query)

SpecPipeline == Init /\ [][NextPipeline]_vars

(***************************************************************************)
(* ollama_langchain_agent.py: the module top level, one statement a step.  *)
(***************************************************************************)
IsLeap(y) == (y % 4 = 0 /\ y % 100 # 0) \/ y % 400 = 0

DaysIn(y, m) ==
    IF m = 2 THEN (IF IsLeap(y) THEN 29 ELSE 28)
    ELSE IF m \in {4, 6, 9, 11} THEN 30 ELSE 31

\* datetime.datetime.now().date()
Dates ==
    { d \in (MinYear..MaxYear) \X (1..12) \X (1..31) : d[3] <= DaysIn(d[1], d[2]) }

target_date == <<2024, 6, 12>>

\* as DateGt, with >= for >
DateGe(a, b) ==
    \/ a[1] > b[1]
    \/ a[1] = b[1] /\ a[2] > b[2]
    \/ a[1] = b[1] /\ a[2] = b[2] /\ a[3] >= b[3]

\* date.__gt__: year, then month, then day
DateGt(a, b) ==
    \/ a[1] > b[1]
    \/ a[1] = b[1] /\ a[2] > b[2]
    \/ a[1] = b[1] /\ a[2] = b[2] /\ a[3] > b[3]

\* lines 12-17
SelectedModel(date) == IF DateGt(date, target_date) THEN "llama2" ELSE "llama2:7b"

\* what the library call of a statement can raise (all of them subclasses
\* of Exception): the constructors validate their arguments, load_tools
\* imports the packages of the tools, the agent talks to the Ollama server
FailuresAt(at) ==
    CASE at = "llm"   -> {"invalid parameters"}
      [] at = "tools" -> {"missing package", "unknown tool"}
      [] at = "agent" -> {"invalid parameters"}
      [] at = "run"   -> {"connectivity", "missing model", "parsing failure"}

\* the call returns, or raises e
Outcomes(at) == { <<>> } \cup { <<e>> : e \in FailuresAt(at) }

\* as ExceptOutput, with the hint printed before the error text
ExceptOutputHintFirst(e) ==
    << [line |-> "Make sure Ollama is running and the model is available",
        e |-> <<>>],
       [line |-> "Error occurred:", e |-> <<e>>] >>

\* lines 54-56: except Exception as e
ExceptOutput(e) ==
    << [line |-> "Error occurred:", e |-> <<e>>],
       [line |-> "Make sure Ollama is running and the model is available",
        e |-> <<>>] >>

StartAgent ==
    /\ pc = "select"
    /\ current_date \in Dates
    /\ llm_model = <<>>
    /\ raised = <<>>
    /\ output = <<>>
    /\ uncaught = <<>>

IdleRag ==
    /\ tieLow = TRUE
    /\ newsFile = <<>>
    /\ cache = <<>>
    /\ builds = 0
    /\ hasMessages = FALSE
    /\ messages = <<>>
    /\ runEnd = "none"
    /\ lastCall = NoCall
    /\ probe = <<>>

\* lines 7-17
SelectModel ==
    /\ pc = "select"
    /\ llm_model' = << SelectedModel(current_date) >>
    /\ pc' = "llm"
    /\ UNCHANGED <<current_date, raised, output, uncaught>>
    /\ UNCHANGED ragVars

\* a statement outside the try block: go on, or the exception leaves the script
Unprotected(at, next, outcome) ==
    /\ pc = at
    /\ IF outcome = <<>>
       THEN /\ pc' = next
            /\ UNCHANGED <<raised, uncaught>>
       ELSE /\ pc' = "exit"
            /\ raised' = << [at |-> at, e |-> outcome[1]] >>
            /\ uncaught' = outcome
    /\ UNCHANGED <<current_date, llm_model, output>>
    /\ UNCHANGED ragVars

\* lines 23-30
NewOllama(outcome) == Unprotected("llm", "tools", outcome)

\* line 33
LoadTools(outcome) == Unprotected("tools", "agent", outcome)

\* lines 36-44
InitializeAgent(outcome) == Unprotected("agent", "run", outcome)

\* lines 51-56
RunAgent(outcome) ==
    /\ pc = "run"
    /\ pc' = "exit"
    /\ IF outcome = <<>>
       THEN /\ output' = Append(output, [line |-> "Result:", e |-> <<>>])
            /\ UNCHANGED raised
       ELSE /\ output' = output \o ExceptOutput(outcome[1])
            /\ raised' = << [at |-> "run", e |-> outcome[1]] >>
    /\ UNCHANGED <<current_date, llm_model, uncaught>>
    /\ UNCHANGED ragVars

NextAgent ==
    \/ SelectModel
    \/ \E outcome \in Outcomes("llm") : NewOllama(outcome)
    \/ \E outcome \in Outcomes("tools") : LoadTools(outcome)
    \/ \E outcome \in Outcomes("agent") : InitializeAgent(outcome)
    \/ \E outcome \in Outcomes("run") : RunAgent(outcome)

InitAgent == IdleRag /\ StartAgent

SpecAgent == InitAgent /\ [][NextAgent]_vars

(***************************************************************************)
(* Definitions the properties are stated with.  They are written apart     *)
(* from the operators of the model above.                                  *)
(***************************************************************************)
\* the retrieve call last made, directly or by answer: <<>> or <<call>>
LastRetrieve ==
    IF lastCall.op = "retrieve" THEN << lastCall.call >>
    ELSE IF lastCall.op = "answer" THEN lastCall.retrieve
    ELSE <<>>

\* the generate call last made, directly or by answer: <<>> or <<call>>
LastGenerate ==
    IF lastCall.op = "generate" THEN << lastCall.call >>
    ELSE IF lastCall.op = "answer" THEN lastCall.generate
    ELSE <<>>

\* squared Euclidean distance of two vectors of the plane
SqDist(u, v) ==
    (u[1] - v[1]) * (u[1] - v[1]) + (u[2] - v[2]) * (u[2] - v[2])

\* squared distance of a document's embedding to the query embedding
DocDist(doc, query) == SqDist(Embed(doc), Embed(query))

\* the documents of a list joined by single spaces, built from the right
RECURSIVE SpaceJoined(_)
SpaceJoined(list) ==
    IF list = <<>> THEN <<>>
    ELSE LET front == SubSeq(list, 1, Len(list) - 1)
         IN  (IF front = <<>> THEN <<>> ELSE SpaceJoined(front) \o <<" ">>)
             \o list[Len(list)]

\* "Context: {context}\n\nQuestion: {query}\nAnswer:"
TemplatePrompt(query, list) ==
    <<"C","o","n","t","e","x","t",":"," ">> \o SpaceJoined(list)
    \o <<"\n","\n">> \o <<"Q","u","e","s","t","i","o","n",":"," ">> \o query
    \o <<"\n">> \o <<"A","n","s","w","e","r",":">>

\* s is a prefix of t
IsPrefix(s, t) == Len(s) <= Len(t) /\ SubSeq(t, 1, Len(s)) = s

\* days from 0001-01-01 to the date, that day included
DaysBeforeYear(y) ==
    365 * (y - 1) + ((y - 1) \div 4) - ((y - 1) \div 100) + ((y - 1) \div 400)

RECURSIVE DaysBeforeMonth(_, _)
DaysBeforeMonth(y, m) ==
    IF m = 1 THEN 0 ELSE DaysBeforeMonth(y, m - 1) + DaysIn(y, m - 1)

Ordinal(date) ==
    DaysBeforeYear(date[1]) + DaysBeforeMonth(date[1], date[2]) + date[3]

(***************************************************************************)
(* C1.  For a corpus of n >= 1 documents and 1 <= k <= n, retrieve(query,  *)
(* k) returns exactly k documents, each a document of the corpus, in       *)
(* non-decreasing squared Euclidean distance of their embeddings to the    *)
(* query embedding.                                                        *)
(***************************************************************************)
C1_RetrieveTopK ==
    \A c \in { LastRetrieve[i] : i \in 1..Len(LastRetrieve) } :
        (cache # <<>> /\ c.top_k >= 1 /\ c.top_k <= Len(cache[1].docs)) =>
            /\ Len(c.ret) = c.top_k
            /\ \A r \in 1..Len(c.ret) :
                   \E i \in 1..Len(cache[1].docs) : cache[1].docs[i] = c.ret[r]
            /\ \A r \in 1..(Len(c.ret) - 1) :
                   DocDist(c.ret[r], c.query) <= DocDist(c.ret[r + 1], c.query)

\* a retrieve with k = n = 3 whose result spans two different distances
C1_Witness ==
    /\ lastCall.op = "retrieve"
    /\ cache # <<>>
    /\ Len(cache[1].docs) = 3
    /\ lastCall.call.top_k = 3
    /\ DocDist(lastCall.call.ret[1], lastCall.call.query)
         < DocDist(lastCall.call.ret[3], lastCall.call.query)

(***************************************************************************)
(* C9.  For every k >= 1, k > n included, every document that retrieve     *)
(* returns is the document at a corpus position the index search reported  *)
(* (never a document made from the "no result" label -1), no corpus        *)
(* position is used twice, and at most n documents are returned.           *)
(***************************************************************************)
C9_NoDocumentFromNoResult ==
    \A c \in { LastRetrieve[i] : i \in 1..Len(LastRetrieve) } :
        cache # <<>> =>
            LET n == Len(cache[1].docs)
                position(r) == IF c.labels[r] >= 0 THEN c.labels[r]
                               ELSE n + c.labels[r]
            IN  /\ Len(c.ret) <= n
                /\ \A r \in 1..Len(c.ret) : c.labels[r] \in 0..(n - 1)
                /\ \A r1, r2 \in 1..Len(c.ret) :
                       r1 # r2 => position(r1) # position(r2)

(***************************************************************************)
(* C8.  Retrieval is deterministic: a retrieve call with the query and k   *)
(* of an earlier retrieve call on the same corpus, in the same pipeline or *)
(* in another one built from that corpus, returns the same documents in    *)
(* the same order.                                                         *)
(***************************************************************************)
C8_RetrieveDeterministic ==
    \A c \in { LastRetrieve[i] : i \in 1..Len(LastRetrieve) } :
        (probe # <<>> /\ probe[1].query = c.query /\ probe[1].top_k = c.top_k)
            => c.ret = probe[1].ret

\* answer repeats, with the default k, a retrieve made directly before it
C8_Witness ==
    /\ lastCall.op = "answer"
    /\ probe # <<>>
    /\ probe[1].query = lastCall.query
    /\ probe[1].top_k = DefaultTopK
    /\ \E r \in 1..(Len(probe[1].ret) - 1) : probe[1].ret[r] # probe[1].ret[r + 1]

(***************************************************************************)
(* C5.  generate builds the prompt "Context: " + the documents joined by   *)
(* single spaces in the order given + "\n\nQuestion: " + the query +       *)
(* "\nAnswer:", hands exactly that prompt to the generator and returns the *)
(* text of the first candidate unchanged.                                  *)
(***************************************************************************)
C5_GeneratePrompt ==
    \A c \in { LastGenerate[i] : i \in 1..Len(LastGenerate) } :
        /\ c.prompt = TemplatePrompt(c.query, c.context)
        /\ c.candidates = Generator(c.prompt)
        /\ c.ret = c.candidates[1].generated_text

\* a direct generate call on two different documents
C5_Witness ==
    /\ lastCall.op = "generate"
    /\ Len(lastCall.call.context) = 2
    /\ lastCall.call.context[1] # lastCall.call.context[2]
    /\ lastCall.call.ret # <<>>

(***************************************************************************)
(* C4.  answer(query) is generate(query, retrieve(query)) with the default *)
(* k = 3, whatever the chat history before it: retrieve and generate are   *)
(* given the question alone, the prompt is made of the question and the    *)
(* retrieved documents alone, and the text shown and stored as the         *)
(* assistant message is exactly what generate returned.                    *)
(***************************************************************************)
C4_AnswerIsGenerateOfRetrieve ==
    (lastCall.op = "answer" /\ lastCall.raised = "none") =>
        LET q == lastCall.query
            r == lastCall.retrieve[1]
            g == lastCall.generate[1]
        IN  /\ r.query = q
            /\ r.top_k = 3
            /\ r.ret = Retrieve(cache[1], q, 3, tieLow)
            /\ g.query = q
            /\ g.context = r.ret
            /\ g.prompt = TemplatePrompt(q, r.ret)
            /\ lastCall.ret = << g.ret >>
            /\ g.ret = Generate(cache[1], q, r.ret)
            /\ messages[Len(messages) - 1] = [role |-> "user", content |-> q]
            /\ messages[Len(messages)] = [role |-> "assistant", content |-> g.ret]

\* an answered question that follows an answered, different question
C4_Witness ==
    /\ lastCall.op = "answer"
    /\ lastCall.raised = "none"
    /\ Len(messages) = 4
    /\ messages[1].content # lastCall.query
    /\ messages[4].content = lastCall.ret[1]

(***************************************************************************)
(* C6.  Whenever a pipeline exists, its embedding matrix and its index     *)
(* have one row per document of the corpus, row i being the embedding of   *)
(* document i; get_pipeline builds it once per process, and no run of the  *)
(* script (no call of answer, hence of retrieve and generate) changes the  *)
(* corpus, the embeddings or the index.                                    *)
(***************************************************************************)
C6_State ==
    /\ builds <= 1
    /\ cache # <<>> =>
        LET p == cache[1]
        IN  /\ builds = 1
            /\ Len(p.embeddings) = Len(p.docs)
            /\ Len(p.index) = Len(p.docs)
            /\ \A i \in 1..Len(p.docs) :
                   /\ p.embeddings[i] = Embed(p.docs[i])
                   /\ p.index[i] = p.embeddings[i]

C6_Step ==
    /\ (cache # <<>> /\ cache' # <<>>) => (cache' = cache /\ builds' = builds)
    /\ (cache = <<>> /\ cache' # <<>>) => builds' = builds + 1

\* C6: the rows match the corpus in every state, and every step keeps the
\* cached pipeline as it is and builds it only when there is none
C6_BuiltOnceNeverMutated == [](C6_State) /\ [][C6_Step]_vars

\* the pipeline built once has served two questions of one session
C6_Witness ==
    /\ cache # <<>>
    /\ builds = 1
    /\ lastCall.op = "answer"
    /\ Len(messages) = 4
    /\ \E i \in 1..(Len(cache[1].docs) - 1) : cache[1].docs[i] = cache[1].docs[i + 1]

(***************************************************************************)
(* C7.  The chat history of a session is append-only: a run of the script  *)
(* leaves the history it found as a prefix of the history it leaves, a run *)
(* with nothing submitted leaves it unchanged, and the first run of a new  *)
(* session starts from the empty history.                                  *)
(***************************************************************************)
C7_Step ==
    /\ (hasMessages /\ hasMessages') => IsPrefix(messages, messages')
    /\ (hasMessages /\ hasMessages' /\ runEnd' = "ok" /\ lastCall'.op = "none")
           => messages' = messages
    /\ (~hasMessages /\ hasMessages') =>
           IF lastCall'.op = "answer"
           THEN /\ Len(messages') <= 2
                /\ messages'[1] = [role |-> "user", content |-> lastCall'.query]
           ELSE messages' = <<>>

\* C7: every step of a session only appends to the history
C7_HistoryAppendOnly == [][C7_Step]_vars

\* a rerun with nothing submitted, on a history of two questions
C7_Witness ==
    /\ hasMessages
    /\ runEnd = "ok"
    /\ lastCall.op = "none"
    /\ Len(messages) >= 3

(***************************************************************************)
(* C10.  Whenever a run of the script has ended, normally or by an         *)
(* uncaught failure of pipeline.answer, the history alternates user,       *)
(* assistant, user, assistant, ...: its length is even and every user      *)
(* message is directly followed by the answer to it.                       *)
(***************************************************************************)
C10_HistoryAlternates ==
    (hasMessages /\ runEnd \in {"ok", "error"}) =>
        /\ Len(messages) % 2 = 0
        /\ \A i \in 1..Len(messages) :
               IF i % 2 = 1
               THEN messages[i].role = "user"
               ELSE /\ messages[i].role = "assistant"
                    /\ messages[i - 1].role = "user"
                    /\ messages[i].content =
                           Answer(cache[1], messages[i - 1].content, tieLow)

(***************************************************************************)
(* C3.  The model is a function of the current date alone: "llama2" for a  *)
(* date strictly after 2024-06-12, "llama2:7b" for 2024-06-12 and every    *)
(* earlier date, and never anything else.                                  *)
(***************************************************************************)
C3_ModelByDate ==
    llm_model # <<>> =>
        /\ llm_model[1] \in {"llama2", "llama2:7b"}
        /\ llm_model[1] = "llama2"
               <=> Ordinal(current_date) > Ordinal(<<2024, 6, 12>>)
        /\ llm_model[1] = "llama2:7b"
               <=> Ordinal(current_date) <= Ordinal(<<2024, 6, 12>>)

\* the lighter model, selected on the threshold date itself
C3_Witness ==
    /\ current_date = <<2024, 6, 12>>
    /\ llm_model = << "llama2:7b" >>

(***************************************************************************)
(* C2.  A failure raised at any step of the agent script (constructing the *)
(* LLM client, loading the tools, constructing the agent, running the      *)
(* agent) is caught at the top level: the error text and then the hint are *)
(* printed and no exception leaves the script.                             *)
(***************************************************************************)
C2_EveryFailureCaught ==
    (pc = "exit" /\ raised # <<>>) =>
        /\ uncaught = <<>>
        /\ Len(output) = 2
        /\ output[1] = [line |-> "Error occurred:", e |-> << raised[1].e >>]
        /\ output[2].line = "Make sure Ollama is running and the model is available"

(***************************************************************************)
(* C2, as amended.  A failure raised while the agent runs on the question  *)
(* is caught at the top level: the error text and then the hint are        *)
(* printed and no exception leaves the script.  A failure raised while the *)
(* LLM client is constructed, the tools are loaded or the agent is         *)
(* constructed is outside the try block: nothing is printed and the        *)
(* exception leaves the script.                                            *)
(***************************************************************************)
C2_RunFailureCaught ==
    (pc = "exit" /\ raised # <<>>) =>
        IF raised[1].at = "run"
        THEN /\ uncaught = <<>>
             /\ Len(output) = 2
             /\ output[1] = [line |-> "Error occurred:", e |-> << raised[1].e >>]
             /\ output[2].line =
                    "Make sure Ollama is running and the model is available"
        ELSE /\ uncaught = << raised[1].e >>
             /\ output = <<>>

\* the agent could not reach the model, and the script ended normally
C2_Witness ==
    /\ pc = "exit"
    /\ raised = << [at |-> "run", e |-> "connectivity"] >>
    /\ uncaught = <<>>
    /\ Len(output) = 2

=============================================================================
